---- MODULE Spec2Model ----
(***************************************************************************)
(* The kitties pallet (pallets/kitties/src/lib.rs): the five dispatchable  *)
(* calls create, transfer, breed, sell and buy over the storage items      *)
(* KittiesCount, Kitties, Owner and KittiesPrice and the balances of the   *)
(* Currency.                                                               *)
(*                                                                         *)
(* The calls carry no #[transactional] attribute and the pallet is written *)
(* against the FRAME macros that still have #[pallet::metadata]; a call    *)
(* that returns Err after it has written keeps what it wrote.  Every       *)
(* action below is one whole call, its writes applied in program order up  *)
(* to the statement that returns.                                          *)
(*                                                                         *)
(* Option<T> is a sequence of length at most one: None is <<>> and Some(v) *)
(* is <<v>>.  A storage map is a function whose domain is the set of keys  *)
(* that are present.                                                       *)
(***************************************************************************)
EXTENDS Integers, Sequences, FiniteSets

\* ---------------------------------------------------------------------
\* Bounds and configuration

\* T::KittyIndex::max_value(), scaled down so that the counter reaches it.
MaxKittyIndex == 4

\* Length of the payload of a Kitty in bytes: [u8; 16], scaled down.  breed
\* treats every byte alike.
DnaLen == 2

\* T::ReserveOfNewCreate::get().
ReserveOfNewCreate == 2

\* T::ExistentialDeposit of the Currency.
ExistentialDeposit == 1

\* The signed origins of the calls.
Accounts == {1, 2, 3}

\* Free balance of each account at genesis: accounts 1 and 2 can pay the
\* reserve and a price, account 3 cannot pay the reserve.
Endowment == <<5, 4, 0>>

\* The prices a seller asks.
Prices == {2}

\* The ids a call may name; MaxKittyIndex itself is never assigned.
KittyIndex == 1..MaxKittyIndex

None == <<>>

Some(v) == <<v>>

OptionPrices == {None} \cup {Some(p) : p \in Prices}

\* ---------------------------------------------------------------------
\* State

VARIABLES
    KittiesCount,   \* StorageValue<KittyIndex>, an Option
    Kitties,        \* StorageMap KittyIndex -> Option<Kitty>
    Owner,          \* StorageMap KittyIndex -> Option<AccountId>
    KittiesPrice,   \* StorageMap KittyIndex -> Option<Balance>
    balances,       \* the Currency: free and reserved balance of each account
    call,           \* the name of the last call dispatched
    result,         \* what the last call returned
    events,         \* the events the last call deposited
    assigned,       \* the ids inserted by create and breed, in call order
    randomness      \* the values T::Randomness can lead random_value to

store == <<KittiesCount, Kitties, Owner, KittiesPrice, balances>>

vars == <<KittiesCount, Kitties, Owner, KittiesPrice, balances, call, result, events,
          assigned, randomness>>

\* ---------------------------------------------------------------------
\* Storage getters (ValueQuery: an absent key reads as the default, None)

kitties_count == KittiesCount

kitties(kitty_id) == IF kitty_id \in DOMAIN Kitties THEN Kitties[kitty_id] ELSE None

owner(kitty_id) == IF kitty_id \in DOMAIN Owner THEN Owner[kitty_id] ELSE None

kitties_price(kitty_id) ==
    IF kitty_id \in DOMAIN KittiesPrice THEN KittiesPrice[kitty_id] ELSE None

\* StorageMap::insert
Insert(map, key, value) ==
    [k \in (DOMAIN map) \cup {key} |-> IF k = key THEN value ELSE map[k]]

\* A remove that leaves the key in place.
RemoveNothing(map, key) == map

\* StorageMap::remove
Remove(map, key) == [k \in (DOMAIN map) \ {key} |-> map[k]]

\* ---------------------------------------------------------------------
\* Currency (free and reserved balance; no locks are ever set)

Min(a, b) == IF a <= b THEN a ELSE b

Total(acc) == acc.free + acc.reserved

\* ReservableCurrency::reserve: Err unless the free balance covers the value.
CanReserve(b, who, value) == value = 0 \/ b[who].free >= value

Reserve(b, who, value) ==
    [b EXCEPT ![who] = [free |-> @.free - value, reserved |-> @.reserved + value]]

\* ReservableCurrency::unreserve: moves at most what is reserved, never fails.
Unreserve(b, who, value) ==
    LET actual == Min(b[who].reserved, value)
    IN  [b EXCEPT ![who] = [free |-> @.free + actual, reserved |-> @.reserved - actual]]

\* Currency::transfer with ExistenceRequirement::KeepAlive: its result.
TransferResult(b, from, to, value) ==
    IF value = 0 \/ from = to THEN "Ok"
    ELSE IF b[from].free < value THEN "InsufficientBalance"
    ELSE IF Total(b[to]) + value < ExistentialDeposit THEN "ExistentialDeposit"
    ELSE IF Total(b[from]) - value < ExistentialDeposit THEN "KeepAlive"
    ELSE "Ok"

Transfer(b, from, to, value) ==
    IF value = 0 \/ from = to THEN b
    ELSE [b EXCEPT ![from] = [@ EXCEPT !.free = @ - value],
                   ![to] = [@ EXCEPT !.free = @ + value]]

\* ---------------------------------------------------------------------
\* Payloads

Bit(x, i) == (x \div (2 ^ i)) % 2

\* u8 from its bits
Byte(bit) ==
    bit[0] + 2 * bit[1] + 4 * bit[2] + 8 * bit[3]
    + 16 * bit[4] + 32 * bit[5] + 64 * bit[6] + 128 * bit[7]

\* x & y on u8
BitAnd(x, y) == Byte([i \in 0..7 |-> Bit(x, i) * Bit(y, i)])

\* x | y on u8
BitOr(x, y) == Byte([i \in 0..7 |-> IF Bit(x, i) + Bit(y, i) > 0 THEN 1 ELSE 0])

\* !x on u8
BitNot(x) == 255 - x

\* A mix that takes the other parent's bits.
MixByteSwapped(selector, a, b) == BitOr(BitAnd(selector, b), BitAnd(BitNot(selector), a))

\* (selector[i] & dna_1[i]) | (!selector[i] & dna_2[i])
MixByte(selector, a, b) == BitOr(BitAnd(selector, a), BitAnd(BitNot(selector), b))

\* the loop of breed over the bytes of the parents
MixDna(selector, dna_1, dna_2) ==
    [i \in 1..Len(dna_1) |-> MixByte(selector[i], dna_1[i], dna_2[i])]

\* random_value: blake2_128 of (random seed, who, extrinsic index).  The seed
\* belongs to the runtime, not to the pallet: a call may draw any value the
\* source of this run can yield.
random_value(who) == randomness

\* A source that yields one value whatever the seed.
RandomValues == { [i \in 1..DnaLen |-> IF i % 2 = 1 THEN 240 ELSE 85] }

\* ---------------------------------------------------------------------
\* Initial state: genesis, empty storage

Init ==
    /\ KittiesCount = None
    /\ Kitties = <<>>
    /\ Owner = <<>>
    /\ KittiesPrice = <<>>
    /\ balances = [a \in Accounts |-> [free |-> Endowment[a], reserved |-> 0]]
    /\ call = "genesis"
    /\ result = "Ok"
    /\ events = <<>>
    /\ assigned = <<>>
    /\ randomness = RandomValues

\* A call that returns before its first write.
Fails(c, error) ==
    /\ call' = c
    /\ result' = error
    /\ events' = <<>>
    /\ UNCHANGED <<KittiesCount, Kitties, Owner, KittiesPrice, balances, assigned, randomness>>

\* A count that is stored without the increment.
NextCountStuck(kitty_id) == kitty_id

\* kitty_id + 1u32.into() in the width of KittyIndex
NextCount(kitty_id) == (kitty_id + 1) % (MaxKittyIndex + 1)

\* An id that is one below the stored count: the id assigned last.
NewKittyIdReused == IF kitties_count = None THEN 1 ELSE kitties_count[1] - 1

\* The id create and breed take: the stored count, or 1 when there is none.
NewKittyId == IF kitties_count = None THEN 1 ELSE kitties_count[1]

\* A create or breed without the ensure! on the count.
CountOverflowUnchecked == FALSE

\* ensure!(id != T::KittyIndex::max_value(), KittiesCountOverflow) fails.
CountOverflow == kitties_count # None /\ kitties_count[1] = MaxKittyIndex

\* create or breed that stores the kitty and the count but no owner.
InsertKittyWithoutOwner(who, kitty_id, dna) ==
    /\ Kitties' = Insert(Kitties, kitty_id, Some(dna))
    /\ Owner' = Owner
    /\ KittiesCount' = Some(NextCount(kitty_id))
    /\ events' = << <<"KittyCreated", who, kitty_id>> >>
    /\ assigned' = Append(assigned, kitty_id)

\* The three inserts and the event at the end of create and breed.
InsertKitty(who, kitty_id, dna) ==
    /\ Kitties' = Insert(Kitties, kitty_id, Some(dna))
    /\ Owner' = Insert(Owner, kitty_id, Some(who))
    /\ KittiesCount' = Some(NextCount(kitty_id))
    /\ events' = << <<"KittyCreated", who, kitty_id>> >>
    /\ assigned' = Append(assigned, kitty_id)

\* A create that takes no reserve.
createUnpaid(who) ==
    LET c == "create" IN
    IF CountOverflow THEN Fails(c, "KittiesCountOverflow")
    ELSE /\ call' = c
         /\ result' = "Ok"
         /\ \E dna \in random_value(who) : InsertKitty(who, NewKittyId, dna)
         /\ UNCHANGED <<KittiesPrice, balances, randomness>>

create(who) ==
    LET c == "create" IN
    IF CountOverflow THEN Fails(c, "KittiesCountOverflow")
    ELSE IF ~CanReserve(balances, who, ReserveOfNewCreate) THEN Fails(c, "NotEnoughBalance")
    ELSE /\ call' = c
         /\ result' = "Ok"
         /\ balances' = Reserve(balances, who, ReserveOfNewCreate)
         /\ \E dna \in random_value(who) : InsertKitty(who, NewKittyId, dna)
         /\ UNCHANGED <<KittiesPrice, randomness>>

\* transfer_kitty: the owner is overwritten and the event deposited.
transfer_kitty(from, to, kitty_id) ==
    /\ Owner' = Insert(Owner, kitty_id, Some(to))
    /\ events' = << <<"KittyTransfered", from, to, kitty_id>> >>

\* A transfer without the ensure! on the owner.
transferByAnyone(sender, to, kitty_id) ==
    LET c == "transfer" IN
    IF owner(kitty_id) = None THEN Fails(c, "panic")
    ELSE /\ call' = c
         /\ result' = "Ok"
         /\ transfer_kitty(sender, to, kitty_id)
         /\ UNCHANGED <<KittiesCount, Kitties, KittiesPrice, balances, assigned, randomness>>

\* A transfer that takes the kitty off sale.
transferDelisting(sender, to, kitty_id) ==
    LET c == "transfer" IN
    IF owner(kitty_id) = None THEN Fails(c, "panic")
    ELSE IF owner(kitty_id)[1] # sender THEN Fails(c, "NotOwnerOfKitty")
    ELSE /\ call' = c
         /\ result' = "Ok"
         /\ transfer_kitty(sender, to, kitty_id)
         /\ KittiesPrice' = Remove(KittiesPrice, kitty_id)
         /\ UNCHANGED <<KittiesCount, Kitties, balances, assigned, randomness>>

transfer(sender, to, kitty_id) ==
    LET c == "transfer" IN
    IF owner(kitty_id) = None THEN Fails(c, "panic")
    ELSE IF owner(kitty_id)[1] # sender THEN Fails(c, "NotOwnerOfKitty")
    ELSE /\ call' = c
         /\ result' = "Ok"
         /\ transfer_kitty(sender, to, kitty_id)
         /\ UNCHANGED <<KittiesCount, Kitties, KittiesPrice, balances, assigned, randomness>>

\* A breed that looks the parents up before it compares their ids.
breedLookupFirst(who, kitty_id_1, kitty_id_2) ==
    LET c == "breed" IN
    IF owner(kitty_id_1) = None \/ owner(kitty_id_2) = None
        THEN Fails(c, "InvalidKittyIndex")
    ELSE IF kitty_id_1 = kitty_id_2 THEN Fails(c, "SameParentIndex")
    ELSE IF owner(kitty_id_1)[1] # who \/ owner(kitty_id_2)[1] # who
        THEN Fails(c, "NotOwnerOfKitty")
    ELSE IF kitties(kitty_id_1) = None \/ kitties(kitty_id_2) = None
        THEN Fails(c, "InvalidKittyIndex")
    ELSE IF CountOverflow THEN Fails(c, "KittiesCountOverflow")
    ELSE /\ call' = c
         /\ result' = "Ok"
         /\ \E selector \in random_value(who) :
                InsertKitty(who, NewKittyId,
                            MixDna(selector, kitties(kitty_id_1)[1], kitties(kitty_id_2)[1]))
         /\ UNCHANGED <<KittiesPrice, balances, randomness>>

breed(who, kitty_id_1, kitty_id_2) ==
    LET c == "breed" IN
    IF kitty_id_1 = kitty_id_2 THEN Fails(c, "SameParentIndex")
    ELSE IF owner(kitty_id_1) = None \/ owner(kitty_id_2) = None
        THEN Fails(c, "InvalidKittyIndex")
    ELSE IF owner(kitty_id_1)[1] # who \/ owner(kitty_id_2)[1] # who
        THEN Fails(c, "NotOwnerOfKitty")
    ELSE IF kitties(kitty_id_1) = None \/ kitties(kitty_id_2) = None
        THEN Fails(c, "InvalidKittyIndex")
    ELSE IF CountOverflow THEN Fails(c, "KittiesCountOverflow")
    ELSE /\ call' = c
         /\ result' = "Ok"
         /\ \E selector \in random_value(who) :
                InsertKitty(who, NewKittyId,
                            MixDna(selector, kitties(kitty_id_1)[1], kitties(kitty_id_2)[1]))
         /\ UNCHANGED <<KittiesPrice, balances, randomness>>

\* A sell without the ensure! on the owner.
sellByAnyone(who, kitty_id, price) ==
    /\ call' = "sell"
    /\ result' = "Ok"
    /\ KittiesPrice' = Insert(KittiesPrice, kitty_id, price)
    /\ events' = << <<"KittyForSale", who, kitty_id, price>> >>
    /\ UNCHANGED <<KittiesCount, Kitties, Owner, balances, assigned, randomness>>

sell(who, kitty_id, price) ==
    LET c == "sell" IN
    IF Some(who) # owner(kitty_id) THEN Fails(c, "NotOwnerOfKitty")
    ELSE /\ call' = c
         /\ result' = "Ok"
         /\ KittiesPrice' = Insert(KittiesPrice, kitty_id, price)
         /\ events' = << <<"KittyForSale", who, kitty_id, price>> >>
         /\ UNCHANGED <<KittiesCount, Kitties, Owner, balances, assigned, randomness>>

\* A payment with payer and payee exchanged.
PaymentReversed(b, buyer, seller, price) == Transfer(b, seller, buyer, price)

\* The payment of buy: the price goes from the buyer to the owner.
Payment(b, buyer, seller, price) == Transfer(b, buyer, seller, price)

PaymentResult(b, buyer, seller, price) == TransferResult(b, buyer, seller, price)

\* A buy that looks at the listing before it looks at the owner.
buyListingFirst(buyer, kitty_id) ==
    LET c == "buy" IN
    IF owner(kitty_id) = None THEN Fails(c, "panic")
    ELSE IF kitties_price(kitty_id) = None THEN Fails(c, "NotForSale")
    ELSE IF owner(kitty_id)[1] = buyer THEN Fails(c, "KittyAlreadyOwned")
    ELSE IF ~CanReserve(balances, buyer, ReserveOfNewCreate) THEN Fails(c, "NotEnoughBalance")
    ELSE
        LET seller == owner(kitty_id)[1]
            price == kitties_price(kitty_id)[1]
            reserved == Reserve(balances, buyer, ReserveOfNewCreate)
            unreserved == Unreserve(reserved, seller, ReserveOfNewCreate)
            paid == PaymentResult(unreserved, buyer, seller, price)
        IN  IF paid # "Ok"
            THEN /\ call' = c
                 /\ result' = paid
                 /\ events' = <<>>
                 /\ balances' = unreserved
                 /\ UNCHANGED <<KittiesCount, Kitties, Owner, KittiesPrice, assigned, randomness>>
            ELSE /\ call' = c
                 /\ result' = "Ok"
                 /\ balances' = Payment(unreserved, buyer, seller, price)
                 /\ KittiesPrice' = Remove(KittiesPrice, kitty_id)
                 /\ transfer_kitty(seller, buyer, kitty_id)
                 /\ UNCHANGED <<KittiesCount, Kitties, assigned, randomness>>

buy(buyer, kitty_id) ==
    LET c == "buy" IN
    IF owner(kitty_id) = None THEN Fails(c, "panic")
    ELSE IF owner(kitty_id)[1] = buyer THEN Fails(c, "KittyAlreadyOwned")
    ELSE IF kitties_price(kitty_id) = None THEN Fails(c, "NotForSale")
    ELSE IF ~CanReserve(balances, buyer, ReserveOfNewCreate) THEN Fails(c, "NotEnoughBalance")
    ELSE
        LET seller == owner(kitty_id)[1]
            price == kitties_price(kitty_id)[1]
            reserved == Reserve(balances, buyer, ReserveOfNewCreate)
            unreserved == Unreserve(reserved, seller, ReserveOfNewCreate)
            paid == PaymentResult(unreserved, buyer, seller, price)
        IN  IF paid # "Ok"
            THEN /\ call' = c
                 /\ result' = paid
                 /\ events' = <<>>
                 /\ balances' = unreserved
                 /\ UNCHANGED <<KittiesCount, Kitties, Owner, KittiesPrice, assigned, randomness>>
            ELSE /\ call' = c
                 /\ result' = "Ok"
                 /\ balances' = Payment(unreserved, buyer, seller, price)
                 /\ KittiesPrice' = Remove(KittiesPrice, kitty_id)
                 /\ transfer_kitty(seller, buyer, kitty_id)
                 /\ UNCHANGED <<KittiesCount, Kitties, assigned, randomness>>

Next ==
    \/ \E who \in Accounts : create(who)
    \/ \E sender \in Accounts, to \in Accounts, kitty_id \in KittyIndex :
           transfer(sender, to, kitty_id)
    \/ \E who \in Accounts, kitty_id_1 \in KittyIndex, kitty_id_2 \in KittyIndex :
           breed(who, kitty_id_1, kitty_id_2)
    \/ \E who \in Accounts, kitty_id \in KittyIndex, price \in OptionPrices :
           sell(who, kitty_id, price)
    \/ \E buyer \in Accounts, kitty_id \in KittyIndex : buy(buyer, kitty_id)

Spec == Init /\ [][Next]_vars

\* ---------------------------------------------------------------------
\* The same calls from a genesis whose randomness yields two values that
\* differ in every byte, so that kitties carry different payloads.

\* Two values; in each byte every pairing of bits occurs.
DnaValues ==
    { [i \in 1..DnaLen |-> IF i % 2 = 1 THEN 240 ELSE 85],
      [i \in 1..DnaLen |-> IF i % 2 = 1 THEN 85 ELSE 240] }

\* Free balances at this genesis: account 1 can pay the reserve three times,
\* or the reserve and a price.
EndowmentDna == <<6, 0, 0>>

InitDna ==
    /\ KittiesCount = None
    /\ Kitties = <<>>
    /\ Owner = <<>>
    /\ KittiesPrice = <<>>
    /\ balances = [a \in Accounts |-> [free |-> EndowmentDna[a], reserved |-> 0]]
    /\ call = "genesis"
    /\ result = "Ok"
    /\ events = <<>>
    /\ assigned = <<>>
    /\ randomness = DnaValues

SpecDna == InitDna /\ [][Next]_vars

\* ---------------------------------------------------------------------
\* create and breed alone, from a genesis whose randomness yields three
\* values: the selector of a breed can differ from both parents.

SelectorValues ==
    DnaValues \cup { [i \in 1..DnaLen |-> IF i % 2 = 1 THEN 204 ELSE 15] }

InitBreed ==
    /\ KittiesCount = None
    /\ Kitties = <<>>
    /\ Owner = <<>>
    /\ KittiesPrice = <<>>
    /\ balances = [a \in Accounts |-> [free |-> Endowment[a], reserved |-> 0]]
    /\ call = "genesis"
    /\ result = "Ok"
    /\ events = <<>>
    /\ assigned = <<>>
    /\ randomness = SelectorValues

NextBreed ==
    \/ \E who \in Accounts : create(who)
    \/ \E who \in Accounts, kitty_id_1 \in KittyIndex, kitty_id_2 \in KittyIndex :
           breed(who, kitty_id_1, kitty_id_2)

SpecBreed == InitBreed /\ [][NextBreed]_vars

TypeOK ==
    /\ KittiesCount \in {None} \cup {Some(n) : n \in 0..MaxKittyIndex}
    /\ DOMAIN Kitties \subseteq KittyIndex
    /\ DOMAIN Owner \subseteq KittyIndex
    /\ DOMAIN KittiesPrice \subseteq KittyIndex
    /\ \A a \in Accounts : balances[a].free \in Nat /\ balances[a].reserved \in Nat
\* ---------------------------------------------------------------------
\* Properties

\* The stored count as a number, an absent count being zero.
CountValue(c) == IF c = None THEN 0 ELSE c[1]

\* The errors Currency::transfer hands through buy.
TransferErrors == {"InsufficientBalance", "ExistentialDeposit", "KeepAlive"}

\* C1: a call that returns a failure leaves KittiesCount, Kitties, Owner,
\* KittiesPrice and every free and reserved balance as they were.
C1_FailedCallLeavesStateUntouched ==
    [][result' # "Ok" => store' = store]_vars

\* C2: when buy has reserved the buyer's collateral and the payment of the
\* price then fails, the balances of buyer and seller, the listing and the
\* owner are as before the call.
C2_FailedPaymentRollsBackReserve ==
    [][(call' = "buy" /\ result' \in TransferErrors)
        => /\ balances' = balances
           /\ KittiesPrice' = KittiesPrice
           /\ Owner' = Owner]_vars

\* C3: an owner entry exists for an id exactly when a kitty is stored under
\* that id, and every stored kitty has exactly one owner.
C3_OwnerIffKitty ==
    /\ DOMAIN Owner = DOMAIN Kitties
    /\ \A k \in DOMAIN Kitties :
           /\ Kitties[k] # None
           /\ \E a \in Accounts : Owner[k] = Some(a)

C3_Witness ==
    /\ call = "buy" /\ result = "Ok"
    /\ Cardinality(DOMAIN Kitties) >= 2

\* C4: every id create or breed assigns is larger than all ids assigned
\* before it, and no kitty or owner was stored under it.
C4_IdsStrictlyIncrease ==
    [][assigned' # assigned
        => LET id == assigned'[Len(assigned')]
           IN  /\ assigned' = Append(assigned, id)
               /\ \A i \in 1..Len(assigned) : assigned[i] < id
               /\ id \notin DOMAIN Kitties
               /\ id \notin DOMAIN Owner
               /\ id \in DOMAIN Kitties'
               /\ \A k \in DOMAIN Kitties : k \in DOMAIN Kitties' /\ Kitties'[k] = Kitties[k]]_vars

C4_Witness ==
    /\ call = "breed" /\ result = "Ok"
    /\ Len(assigned) = 3

\* C5: after a successful create or breed the stored count equals the
\* highest id assigned so far.
C5_CountIsHighestId ==
    (call \in {"create", "breed"} /\ result = "Ok")
        => KittiesCount = Some(assigned[Len(assigned)])
\* C6: create, and breed by the owner of two distinct parents, fail with
\* KittiesCountOverflow exactly when the stored count is the largest index,
\* and then write nothing; at one below the largest index a create that can
\* pay succeeds and the count becomes the largest index; the count never
\* decreases and never wraps.
C6_OverflowOnlyAtMax ==
    [][/\ (call' \in {"create", "breed"} /\ result' = "KittiesCountOverflow")
              => KittiesCount = Some(MaxKittyIndex)
       /\ (call' = "create" /\ KittiesCount = Some(MaxKittyIndex))
              => result' = "KittiesCountOverflow"
       /\ (call' = "breed" /\ KittiesCount = Some(MaxKittyIndex))
              => \A k1 \in DOMAIN Owner, k2 \in DOMAIN Owner :
                     (k1 # k2 /\ Owner[k1] = Owner[k2] /\ breed(Owner[k1][1], k1, k2))
                         => result' = "KittiesCountOverflow"
       /\ (call' = "create" /\ KittiesCount = Some(MaxKittyIndex - 1))
              => \A who \in Accounts :
                     (balances[who].free >= ReserveOfNewCreate /\ create(who))
                         => (result' = "Ok" /\ KittiesCount' = Some(MaxKittyIndex))
       /\ result' = "KittiesCountOverflow" => (store' = store /\ events' = <<>>)
       /\ CountValue(KittiesCount) <= CountValue(KittiesCount')
       /\ CountValue(KittiesCount') <= MaxKittyIndex]_vars

C6_Witness ==
    /\ call = "breed" /\ result = "KittiesCountOverflow"
    /\ KittiesCount = Some(MaxKittyIndex)
    /\ Cardinality(DOMAIN Kitties) = MaxKittyIndex - 1

\* C7: a successful buy of kitty id by B from its owner A makes B the owner
\* of id, leaves id without a listing entry, changes no other owner and no
\* other listing, and deposits exactly the one event KittyTransfered(A, B, id).
C7_BuyMovesKittyAndDelists ==
    [][(call' = "buy" /\ result' = "Ok") =>
       \A B \in Accounts, id \in KittyIndex :
           buy(B, id)
               => /\ id \in DOMAIN Owner
                  /\ Owner[id] # Some(B)
                  /\ Owner' = [Owner EXCEPT ![id] = Some(B)]
                  /\ id \notin DOMAIN KittiesPrice'
                  /\ \A k \in KittyIndex \ {id} :
                         /\ k \in DOMAIN KittiesPrice' <=> k \in DOMAIN KittiesPrice
                         /\ k \in DOMAIN KittiesPrice => KittiesPrice'[k] = KittiesPrice[k]
                  /\ events' = << <<"KittyTransfered", Owner[id][1], B, id>> >>]_vars

C7_Witness ==
    /\ call = "buy" /\ result = "Ok"
    /\ Len(events) = 1
    /\ events[1][4] \notin DOMAIN KittiesPrice
    /\ \E k \in DOMAIN KittiesPrice : KittiesPrice[k] # None

\* C8: a successful buy leaves the sum of the free and reserved balances of
\* buyer and seller unchanged, lowers the buyer's free plus reserved balance
\* by exactly the price, raises the seller's by exactly the price, and
\* changes the balance of no other account.
C8_BuyConservesBalances ==
    [][(call' = "buy" /\ result' = "Ok") =>
       \A B \in Accounts, id \in KittyIndex :
           buy(B, id)
               => LET A == Owner[id][1]
                      price == KittiesPrice[id][1]
                  IN  /\ Total(balances'[B]) + Total(balances'[A])
                            = Total(balances[B]) + Total(balances[A])
                      /\ Total(balances'[B]) = Total(balances[B]) - price
                      /\ Total(balances'[A]) = Total(balances[A]) + price
                      /\ \A other \in Accounts \ {A, B} :
                             balances'[other] = balances[other]]_vars

C8_Witness ==
    /\ call = "buy" /\ result = "Ok"
    /\ \E a \in Accounts : Total(balances[a]) > Endowment[a]
    /\ \E a \in Accounts : Total(balances[a]) < Endowment[a]

\* C9: a transfer by the owner of a kitty to that same owner fails with
\* SameOwner, changes no state and deposits no event.
C9_SelfTransferRejected ==
    [][call' = "transfer" =>
       \A sender \in Accounts, kitty_id \in KittyIndex :
           (owner(kitty_id) = Some(sender) /\ transfer(sender, sender, kitty_id))
               => /\ result' = "SameOwner"
                  /\ store' = store
                  /\ events' = <<>>]_vars

\* C10: transfer and buy on an id without an owner entry return the error
\* InvalidKittyIndex, without a panic, and leave the state unchanged.
C10_UnknownIdIsTypedError ==
    [][call' \in {"transfer", "buy"} =>
       \A who \in Accounts, to \in Accounts, kitty_id \in KittyIndex :
           (owner(kitty_id) = None
                /\ (transfer(who, to, kitty_id) \/ buy(who, kitty_id)))
               => /\ result' = "InvalidKittyIndex"
                  /\ store' = store]_vars

\* C11: on a kitty that has an owner, buy returns KittyAlreadyOwned when the
\* caller is that owner, whether or not the kitty is listed; otherwise
\* NotForSale when the price read for the kitty is None (no entry, or an
\* entry holding None); otherwise NotEnoughBalance when the caller's free
\* balance is below the reserve; and a buy that returns one of the three
\* leaves the storage and the balances as they were and deposits no event.
C11_BuyRejectsInOrder ==
    [][call' = "buy" =>
       \A buyer \in Accounts, kitty_id \in KittyIndex :
           (owner(kitty_id) # None /\ buy(buyer, kitty_id))
               => /\ owner(kitty_id) = Some(buyer) => result' = "KittyAlreadyOwned"
                  /\ (owner(kitty_id) # Some(buyer) /\ kitties_price(kitty_id) = None)
                         => result' = "NotForSale"
                  /\ (/\ owner(kitty_id) # Some(buyer)
                      /\ kitties_price(kitty_id) # None
                      /\ balances[buyer].free < ReserveOfNewCreate)
                         => result' = "NotEnoughBalance"
                  /\ result' \in {"KittyAlreadyOwned", "NotForSale", "NotEnoughBalance"}
                         => (store' = store /\ events' = <<>>)]_vars

\* The owner of kitties that are all listed at a price tried to buy one.
C11_Witness ==
    /\ call = "buy" /\ result = "KittyAlreadyOwned"
    /\ DOMAIN Owner # {}
    /\ \A k \in DOMAIN Owner : kitties_price(k) # None

\* C12: sell(who, kitty_id, price) returns Ok exactly when who is the owner
\* of kitty_id and NotOwnerOfKitty otherwise, an id without an owner
\* included; after an Ok the price read for kitty_id is the given price and
\* no other listing has changed; after a failure no listing has changed;
\* no sell changes Owner, Kitties, KittiesCount or a balance; and a buy by
\* another account that directly follows an Ok sell with price None returns
\* NotForSale.
C12_SellOnlyByOwner ==
    [][/\ call' = "sell" =>
          /\ Owner' = Owner
          /\ Kitties' = Kitties
          /\ KittiesCount' = KittiesCount
          /\ balances' = balances
          /\ result' # "Ok" =>
                 /\ result' = "NotOwnerOfKitty"
                 /\ KittiesPrice' = KittiesPrice
                 /\ \A kitty_id \in DOMAIN Owner, price \in OptionPrices :
                        ~sell(Owner[kitty_id][1], kitty_id, price)
          /\ result' = "Ok" =>
                 \A who \in Accounts, kitty_id \in KittyIndex, price \in OptionPrices :
                     sell(who, kitty_id, price)
                         => /\ owner(kitty_id) = Some(who)
                            /\ kitty_id \in DOMAIN KittiesPrice'
                            /\ KittiesPrice'[kitty_id] = price
                            /\ \A k \in KittyIndex \ {kitty_id} :
                                   /\ k \in DOMAIN KittiesPrice' <=> k \in DOMAIN KittiesPrice
                                   /\ k \in DOMAIN KittiesPrice
                                          => KittiesPrice'[k] = KittiesPrice[k]
       /\ (/\ call = "sell" /\ result = "Ok" /\ call' = "buy"
           /\ Len(events) = 1 /\ events[1][4] = None) =>
          \A buyer \in Accounts \ {events[1][2]} :
              buy(buyer, events[1][3]) => result' = "NotForSale"]_vars

\* A buy was refused as NotForSale while every kitty holds an entry None
\* that a sell with price None wrote.
C12_Witness ==
    /\ call = "buy" /\ result = "NotForSale"
    /\ DOMAIN Owner # {}
    /\ \A k \in DOMAIN Owner : k \in DOMAIN KittiesPrice /\ KittiesPrice[k] = None

\* C13: a transfer that returns Ok sets the owner entry of the transferred
\* kitty to the receiver and changes nothing else: every other owner entry,
\* every listing (that of the transferred kitty included), every kitty,
\* the count and every balance are as before.
C13_TransferKeepsListing ==
    [][(call' = "transfer" /\ result' = "Ok") =>
       /\ KittiesPrice' = KittiesPrice
       /\ Kitties' = Kitties
       /\ KittiesCount' = KittiesCount
       /\ balances' = balances
       /\ \A sender \in Accounts, to \in Accounts, kitty_id \in KittyIndex :
              transfer(sender, to, kitty_id)
                  => /\ kitty_id \in DOMAIN Owner
                     /\ Owner' = [Owner EXCEPT ![kitty_id] = Some(to)]
                     /\ kitties_price(kitty_id) # None
                            => KittiesPrice'[kitty_id] = kitties_price(kitty_id)]_vars

\* A kitty listed at a price has just passed to another account and is
\* still listed.
C13_Witness ==
    /\ call = "transfer" /\ result = "Ok"
    /\ Len(events) = 1
    /\ events[1][2] # events[1][3]
    /\ owner(events[1][4]) = Some(events[1][3])
    /\ kitties_price(events[1][4]) # None

\* C14: breed(who, a, b) returns SameParentIndex when a = b, whether or not
\* a kitty is stored under the id; otherwise InvalidKittyIndex when no
\* kitty is stored under a or under b; otherwise NotOwnerOfKitty unless who
\* owns both; otherwise KittiesCountOverflow when the count is the largest
\* index; otherwise Ok.  A breed that does not return Ok leaves the storage
\* and the balances as they were and deposits no event.
C14_BreedRejectsInOrder ==
    \A who \in Accounts, a \in KittyIndex, b \in KittyIndex :
        LET expected ==
                IF a = b THEN "SameParentIndex"
                ELSE IF a \notin DOMAIN Kitties \/ b \notin DOMAIN Kitties
                    THEN "InvalidKittyIndex"
                ELSE IF owner(a) # Some(who) \/ owner(b) # Some(who)
                    THEN "NotOwnerOfKitty"
                ELSE IF KittiesCount = Some(MaxKittyIndex)
                    THEN "KittiesCountOverflow"
                ELSE "Ok"
        IN  ~ENABLED (/\ breed(who, a, b)
                      /\ \/ result' # expected
                         \/ result' # "Ok" /\ (store' # store \/ events' # <<>>))

\* A breed of an id with itself was refused while no kitty exists at all.
C14_Witness ==
    /\ call = "breed" /\ result = "SameParentIndex"
    /\ DOMAIN Kitties = {}
    /\ KittiesCount = None

\* C15: on every breed that returns Ok, with parents A and B, there is a
\* value E of the randomness such that each bit of each byte of the child
\* is the bit of A where the bit of E is 1 and the bit of B where it is 0;
\* the child has the length of its parents, and wherever A and B have the
\* same bit the child has it too.
C15_ChildTakesBitsBySelector ==
    [][(call' = "breed" /\ result' = "Ok") =>
       \A who \in Accounts, k1 \in KittyIndex, k2 \in KittyIndex :
           breed(who, k1, k2)
               => LET A == Kitties[k1][1]
                      B == Kitties[k2][1]
                      child == Kitties'[assigned'[Len(assigned')]][1]
                  IN  /\ Len(child) = Len(A)
                      /\ \E E \in randomness :
                             \A i \in 1..Len(A), n \in 0..7 :
                                 Bit(child[i], n)
                                     = IF Bit(E[i], n) = 1 THEN Bit(A[i], n) ELSE Bit(B[i], n)
                      /\ \A i \in 1..Len(A), n \in 0..7 :
                             Bit(A[i], n) = Bit(B[i], n) => Bit(child[i], n) = Bit(A[i], n)
                      /\ \A i \in 1..Len(A) : child[i] \in 0..255]_vars

\* A child whose payload is that of no other kitty: bits of both parents.
C15_Witness ==
    /\ call = "breed" /\ result = "Ok"
    /\ Len(assigned) >= 3
    /\ \A k \in DOMAIN Kitties \ {assigned[Len(assigned)]} :
           Kitties[k] # Kitties[assigned[Len(assigned)]]

\* C16: a kitty that is stored stays stored under its id with the payload
\* it has, whatever call is made: no step removes an entry of Kitties or
\* changes one, the parents of a breed included.
C16_KittiesNeverChange ==
    [][\A k \in DOMAIN Kitties :
           /\ k \in DOMAIN Kitties'
           /\ Kitties'[k] = Kitties[k]
           /\ Kitties[k] # None]_vars

\* Three kitties of three different payloads, the last one bred.
C16_Witness ==
    /\ call = "breed" /\ result = "Ok"
    /\ Len(assigned) = 3
    /\ Cardinality({Kitties[k] : k \in DOMAIN Kitties}) = 3

\* C17: a create by a caller whose free balance is below the reserve
\* returns NotEnoughBalance and leaves Kitties, Owner, KittiesCount and all
\* balances unchanged; a create that returns Ok moves exactly the reserve
\* from the caller's free to the caller's reserved balance, changes no other
\* balance, and makes the caller the owner of the new kitty, which has no
\* price.
C17_PoorCreateIsNotEnoughBalance ==
    [][call' = "create" =>
       \A who \in Accounts :
           create(who)
               => /\ balances[who].free < ReserveOfNewCreate
                         => (result' = "NotEnoughBalance" /\ store' = store)
                  /\ result' = "Ok"
                         => LET id == assigned'[Len(assigned')]
                            IN  /\ balances' = [balances EXCEPT ![who] =
                                       [free |-> @.free - ReserveOfNewCreate,
                                        reserved |-> @.reserved + ReserveOfNewCreate]]
                                /\ id \notin DOMAIN Owner
                                /\ Owner' = Insert(Owner, id, Some(who))
                                /\ kitties_price(id) = None
                                /\ KittiesPrice' = KittiesPrice]_vars

\* C17, amended: as above, except that a create made while the count is the
\* largest index returns KittiesCountOverflow whatever the caller's balance,
\* and NotEnoughBalance is the result of a caller who cannot pay only while
\* the count is below the largest index; both leave everything unchanged.
C17_PoorCreateBelowMax ==
    [][call' = "create" =>
       \A who \in Accounts :
           create(who)
               => /\ (balances[who].free < ReserveOfNewCreate
                          /\ KittiesCount # Some(MaxKittyIndex))
                         => (result' = "NotEnoughBalance" /\ store' = store)
                  /\ KittiesCount = Some(MaxKittyIndex)
                         => (result' = "KittiesCountOverflow" /\ store' = store)
                  /\ result' = "NotEnoughBalance"
                         => balances[who].free < ReserveOfNewCreate
                  /\ result' = "Ok"
                         => LET id == assigned'[Len(assigned')]
                            IN  /\ balances' = [balances EXCEPT ![who] =
                                       [free |-> @.free - ReserveOfNewCreate,
                                        reserved |-> @.reserved + ReserveOfNewCreate]]
                                /\ id \notin DOMAIN Owner
                                /\ Owner' = Insert(Owner, id, Some(who))
                                /\ kitties_price(id) = None
                                /\ KittiesPrice' = KittiesPrice]_vars

\* A create was refused for lack of funds after kitties had been created.
C17_Witness ==
    /\ call = "create" /\ result = "NotEnoughBalance"
    /\ KittiesCount # None
    /\ KittiesCount # Some(MaxKittyIndex)
    /\ \E a \in Accounts : balances[a].reserved > 0 /\ balances[a].free < ReserveOfNewCreate

\* The kitties an account owns.
OwnedBy(a) == {k \in DOMAIN Owner : Owner[k] = Some(a)}

\* C18: in every reachable state the reserved balance of each account is
\* the reserve times the number of kitties the account owns.
C18_ReservedFollowsOwnership ==
    \A a \in Accounts :
        balances[a].reserved = ReserveOfNewCreate * Cardinality(OwnedBy(a))

\* C19: a buy that returns Ok takes the kitty from an owner who has made a
\* sell of it with that price since becoming its owner.  An owner who was
\* handed the kitty by the call just before, a transfer from another
\* account, has made no sell of it since: no buy of that kitty returns Ok
\* as the next call.
C19_BuyOnlyAfterOwnersSell ==
    [][~(/\ call = "transfer" /\ result = "Ok"
         /\ Len(events) = 1
         /\ events[1][2] # events[1][3]
         /\ call' = "buy" /\ result' = "Ok"
         /\ events'[1][4] = events[1][4]
         /\ events'[1][2] = events[1][3])]_vars

\* C20: the owner entry of a kitty that has one changes only in a transfer
\* that returns Ok and was called by the owner, the new owner being its
\* receiver, or in a buy that returns Ok, the new owner being its caller;
\* create, breed and sell leave every existing owner entry as it is; and
\* a transfer of a kitty called by an account that is not its owner
\* returns NotOwnerOfKitty and leaves Owner unchanged.
C20_OwnerChangesOnlyByTransferOrBuy ==
    /\ [][\A id \in DOMAIN Owner :
              /\ id \in DOMAIN Owner'
              /\ call' \in {"create", "breed", "sell"} => Owner'[id] = Owner[id]
              /\ Owner'[id] # Owner[id] =>
                     /\ Owner[id] # None /\ Owner'[id] # None
                     /\ result' = "Ok"
                     /\ \/ call' = "transfer" /\ transfer(Owner[id][1], Owner'[id][1], id)
                        \/ call' = "buy" /\ buy(Owner'[id][1], id)]_vars
    /\ [](\A sender \in Accounts, to \in Accounts, id \in DOMAIN Owner :
              Owner[id] # Some(sender)
                  => ~ENABLED (/\ transfer(sender, to, id)
                               /\ ~(result' = "NotOwnerOfKitty" /\ Owner' = Owner)))

\* A buy has just moved a kitty to its buyer while another account owns
\* another kitty.
C20_Witness ==
    /\ call = "buy" /\ result = "Ok"
    /\ Len(events) = 1
    /\ owner(events[1][4]) = Some(events[1][3])
    /\ \E k \in DOMAIN Owner : Owner[k] # Some(events[1][3])
====
